---- MODULE Spec2Model ----
(***************************************************************************)
(* Green Climate Fund job scraper (gcf_scraper.py): one run of main(),     *)
(* i.e. scrape_gcf_jobs() followed by generate_rss_feed().                 *)
(*                                                                         *)
(* The rendered page is what the markup parser returns for the queries the *)
(* code makes: a sequence, in document order, of hyperlinks and of         *)
(* containers (each with the hyperlinks it encloses).  Text is modelled as *)
(* character strings; substring, prefix, lower-casing and splitting are    *)
(* computed character by character.                                        *)
(***************************************************************************)
EXTENDS Integers, Sequences, FiniteSets, TLC

(***************************************************************************)
(* Bounds of the model.                                                    *)
(***************************************************************************)
\* longest page drawn freely from the pool of elements
MaxPage == 2
\* how many elements beyond the cap the long page has
Overshoot == 2

(***************************************************************************)
(* Program constants.                                                      *)
(***************************************************************************)
\* job_elements[:50]
MaxCandidates == 50
\* len(job_data['title']) < 5
MinTitleLen == 5
\* element.get_text(strip=True)[:100]
TitleCut == 100

ListingUrl == "https://jobs.greenclimate.fund/en/sites/CX_1001/jobs"
SiteOrigin == "https://jobs.greenclimate.fund"
HttpPrefix == "http"
PositionPrefix == "Position"
FallbackPrefix == "Position "
DefaultLocation == "Green Climate Fund"
NotSpecified == "Not specified"
PartSeparator == " | "
skip_keywords == <<"sitemap", "account", "sign-in", "profile", "help", "about">>
link_skip_keywords == <<"sitemap", "sign-in", "profile">>

(***************************************************************************)
(* String functions of the language, as the code uses them.                *)
(***************************************************************************)
Range(s) == {s[i] : i \in DOMAIN s}

Min(a, b) == IF a < b THEN a ELSE b

\* str.startswith
StartsWith(s, p) == Len(s) >= Len(p) /\ SubSeq(s, 1, Len(p)) = p

\* the `in` operator on strings
Contains(s, sub) ==
    \E i \in 1..(Len(s) - Len(sub) + 1) : SubSeq(s, i, i + Len(sub) - 1) = sub

Upper == <<"A", "B", "C", "D", "E", "F", "G", "H", "I", "J", "K", "L", "M",
           "N", "O", "P", "Q", "R", "S", "T", "U", "V", "W", "X", "Y", "Z">>
Lower == <<"a", "b", "c", "d", "e", "f", "g", "h", "i", "j", "k", "l", "m",
           "n", "o", "p", "q", "r", "s", "t", "u", "v", "w", "x", "y", "z">>

LowerOf == [c \in Range(Upper) |-> Lower[CHOOSE i \in DOMAIN Upper : Upper[i] = c]]

LowerChar(c) == IF c \in DOMAIN LowerOf THEN LowerOf[c] ELSE c

\* str.lower
RECURSIVE ToLower(_)
ToLower(s) == IF s = "" THEN "" ELSE LowerChar(Head(s)) \o ToLower(Tail(s))

\* s.split('/')[-1]
LastSegment(s) ==
    LET slashes == {i \in 1..Len(s) : SubSeq(s, i, i) = "/"}
    IN  IF slashes = {} THEN s
        ELSE SubSeq(s, (CHOOSE i \in slashes : \A j \in slashes : j <= i) + 1, Len(s))

\* s[:n]
Truncate(s, n) == SubSeq(s, 1, Min(Len(s), n))

\* sep.join(parts)
RECURSIVE Join(_, _)
Join(sep, parts) ==
    IF parts = <<>> THEN ""
    ELSE IF Len(parts) = 1 THEN parts[1]
    ELSE parts[1] \o sep \o Join(sep, Tail(parts))

(***************************************************************************)
(* Elements of the rendered page.  A hyperlink carries its href and text,  *)
(* the location text found among its parent's children (ploc) and the      *)
(* location, department and date found inside it.  A container carries its *)
(* visible text, whether it holds a heading whose class contains "title"   *)
(* (and that element's text), whether its automation id contains "job",    *)
(* and the hyperlinks it encloses.  "" stands for "not found".             *)
(***************************************************************************)
Anchor(href, text, ploc, dept, date) ==
    [name |-> "a", href |-> href, text |-> text, heading |-> FALSE, title |-> "",
     auto |-> FALSE, inner |-> <<>>, ploc |-> ploc, loc |-> "", dept |-> dept,
     date |-> date]

Card(name, text, heading, title, auto, inner, loc, dept, date) ==
    [name |-> name, href |-> "", text |-> text, heading |-> heading, title |-> title,
     auto |-> auto, inner |-> inner, ploc |-> "", loc |-> loc, dept |-> dept,
     date |-> date]

PlainLink  == Anchor("https://x/job/1", "Engineer", "Remote", "", "")
ShortLink  == Anchor("ftp://x/job/2", "Dev", "", "", "Mon")
EmptyLink  == Anchor("httpx/job/3", "", "", "", "")
HelpLink   == Anchor("/job/help", "Manager", "", "", "")
ProfileLink == Anchor("/job/profile", "Advisor", "", "", "")
HelpText   == Anchor("/JobDetails/8", "Help", "", "", "")
TitledCard == Card("div", "Position 7Korea", TRUE, "Position 7", FALSE,
                   <<Anchor("/en/posting/7", "Position 7", "", "", "")>>, "Korea", "Ops", "Mon")
AutoCard   == Card("article", "Roles", FALSE, "", TRUE,
                   <<Anchor("/sitemap/9", "Roles", "", "", "")>>, "", "", "")
BareCard   == Card("div", "Vacancy", FALSE, "", TRUE, <<>>, "", "", "")

Pool == {PlainLink, ShortLink, EmptyLink, HelpLink, ProfileLink,
         HelpText, TitledCard, AutoCard, BareCard}

\* a page longer than the cap: the same job link over and over
LongPage == [i \in 1..(MaxCandidates + Overshoot) |-> PlainLink]

Pages == UNION {[1..n -> Pool] : n \in 0..MaxPage} \cup {LongPage}

(***************************************************************************)
(* Candidate discovery (lines 80-109).                                     *)
(***************************************************************************)
\* every hyperlink of the page, in document order
RECURSIVE Anchors(_)
Anchors(page) ==
    IF page = <<>> THEN <<>>
    ELSE (IF page[1].name = "a" THEN <<page[1]>> ELSE page[1].inner)
         \o Anchors(Tail(page))

\* the href filter of strategy 1
JobHref(x) ==
    LET lowered == ToLower(x)
    IN  /\ x # ""
        /\ \/ Contains(lowered, "/requisition")
           \/ Contains(x, "/job/")
           \/ Contains(lowered, "requisitionid")
           \/ Contains(lowered, "jobdetails")

IsJobLink(e) == JobHref(e.href)
StrategyA(page) == SelectSeq(Anchors(page), IsJobLink)

IsTitledCard(e) ==
    e.name \in {"div", "article", "li"} /\ e.heading /\ e.inner # <<>>
StrategyB(page) == SelectSeq(page, IsTitledCard)

IsJobContainer(e) == e.name \in {"div", "article"} /\ e.auto
StrategyC(page) == SelectSeq(page, IsJobContainer)

\* a variant that runs strategy 2 whether or not strategy 1 found anything
DiscoverAlwaysB(page) ==
    LET a == StrategyA(page)
        b == a \o StrategyB(page)
    IN  [found |-> IF b # <<>> THEN b ELSE StrategyC(page),
         tried |-> {"a", "b"} \cup (IF b = <<>> THEN {"c"} ELSE {})]

\* job_elements and the strategies that were run to get it
Discover(page) ==
    LET a == StrategyA(page)
        b == IF a # <<>> THEN a ELSE StrategyB(page)
        c == IF b # <<>> THEN b ELSE StrategyC(page)
    IN  [found |-> c,
         tried |-> {"a"} \cup (IF a = <<>> THEN {"b"} ELSE {})
                         \cup (IF b = <<>> THEN {"c"} ELSE {})]

(***************************************************************************)
(* Filtering of navigation links (lines 111-127).                          *)
(***************************************************************************)
AnyKeyword(s, keywords) == \E k \in Range(keywords) : Contains(s, k)

\* a variant that tests the link against the whole keyword list
SkippedSameList(e) ==
    LET text == ToLower(e.text)
        link == IF e.name = "a" THEN e.href ELSE ""
    IN  AnyKeyword(text, skip_keywords) \/ AnyKeyword(ToLower(link), skip_keywords)

Skipped(e) ==
    LET text == ToLower(e.text)
        link == IF e.name = "a" THEN e.href ELSE ""
    IN  AnyKeyword(text, skip_keywords) \/ AnyKeyword(ToLower(link), link_skip_keywords)

Kept(e) == ~Skipped(e)
Filter(elements) == SelectSeq(elements, Kept)

(***************************************************************************)
(* Per-candidate extraction (lines 135-235).                               *)
(***************************************************************************)
\* href if href.startswith('http') else f"https://jobs.greenclimate.fund{href}"
Normalize(href) == IF StartsWith(href, HttpPrefix) THEN href ELSE SiteOrigin \o href

\* the href the candidate's link is taken from ("" with found FALSE: none)
LinkSource(e) ==
    IF e.name = "a" /\ e.href # "" THEN [found |-> TRUE, href |-> e.href]
    ELSE IF e.inner # <<>> THEN [found |-> TRUE, href |-> e.inner[1].href]
    ELSE [found |-> FALSE, href |-> ""]

\* the title taken from the listing page (lines 151-172)
ListingTitle(e) ==
    IF e.name = "a" THEN e.text
    ELSE IF e.heading THEN e.title
    ELSE IF e.inner # <<>> THEN e.inner[1].text
    ELSE Truncate(e.text, TitleCut)

\* the location known before the detail page is consulted (lines 156-162)
ListingLocation(e) == IF e.name = "a" THEN e.ploc ELSE ""

\* a variant that forgets the placeholder prefix
NeedsDetailNoPrefix(title) == title = "" \/ Len(title) < MinTitleLen

\* line 175
NeedsDetail(title) ==
    title = "" \/ Len(title) < MinTitleLen \/ StartsWith(title, PositionPrefix)

\* lines 229-235
Description(title, location, department) ==
    Join(PartSeparator,
         <<title>>
         \o (IF location # NotSpecified THEN <<"Location: " \o location>> ELSE <<>>)
         \o (IF department # "" THEN <<"Department: " \o department>> ELSE <<>>))

(***************************************************************************)
(* Feed generation (lines 255-337): the element tree that is serialised.   *)
(***************************************************************************)
El(tag, text, attrs, children) ==
    [tag |-> tag, text |-> text, attrs |-> attrs, children |-> children]

\* the channel metadata, lines 267-288
ChannelMeta(now) ==
    << El("title", "Green Climate Fund Jobs", <<>>, <<>>),
       El("link", ListingUrl, <<>>, <<>>),
       El("description", "Job listings from Green Climate Fund", <<>>, <<>>),
       El("language", "en-us", <<>>, <<>>),
       El("atom:link", "",
          << <<"href", "https://cinfoposte.github.io/gcf-jobs/gcf_jobs.xml">>,
             <<"rel", "self">>, <<"type", "application/rss+xml">> >>, <<>>),
       El("lastBuildDate", now, <<>>, <<>>) >>

\* a variant that writes a pubDate element for every record
RssItemAlwaysDated(job) ==
    El("item", "", <<>>,
       << El("title", job.title, <<>>, <<>>),
          El("link", job.link, <<>>, <<>>),
          El("description", job.description, <<>>, <<>>),
          El("guid", job.link, << <<"isPermaLink", "true">> >>, <<>>),
          El("pubDate", job.pubDate, <<>>, <<>>) >>)

\* one item element, lines 292-315
RssItem(job) ==
    El("item", "", <<>>,
       << El("title", job.title, <<>>, <<>>),
          El("link", job.link, <<>>, <<>>),
          El("description", job.description, <<>>, <<>>),
          El("guid", job.link, << <<"isPermaLink", "true">> >>, <<>>) >>
       \o (IF job.pubDate # "" THEN <<El("pubDate", job.pubDate, <<>>, <<>>)>>
           ELSE <<>>))

\* generate_rss_feed(jobs): the rss element with its channel
Feed(js, now) ==
    El("rss", "", << <<"version", "2.0">> >>,
       << El("channel", "", <<>>, ChannelMeta(now) \o [i \in 1..Len(js) |-> RssItem(js[i])]) >>)

\* a variant of main() that generates the feed whatever was scraped
ShouldGenerateAlways(js) == TRUE

\* `if jobs:` in main(), line 351
ShouldGenerate(js) == js # <<>>

Timestamps == {"Mon, 02 Nov 2026 10:00:00 +0000"}

\* what an earlier run left at the output path
StaleJob == [link |-> "https://jobs.greenclimate.fund/job/0", title |-> "Old post",
             location |-> "Remote", department |-> "", pubDate |-> "",
             description |-> "Old post | Location: Remote"]
StaleFeed == Feed(<<StaleJob>>, "Sun, 01 Nov 2026 10:00:00 +0000")

(***************************************************************************)
(* What the detail page of a candidate can do (lines 176-211).             *)
(***************************************************************************)
\* the heading of the detail page: none, one with no text, one with text
NoHeading == [found |-> FALSE, text |-> ""]
DetailHeadings == {NoHeading, [found |-> TRUE, text |-> ""], [found |-> TRUE, text |-> "Head"]}
DetailLocations == {"", "Seoul"}

Outcome(kind, heading, loc, landed) ==
    [kind |-> kind, found |-> heading.found, title |-> heading.text, loc |-> loc,
     landed |-> landed]

NoDetail == Outcome("none", NoHeading, "", FALSE)

\* kind: where the detour raised, if it did (the navigation to the detail
\* page, the reading and parsing of it, the navigation back); found, title:
\* whether a heading had been found by then, and its text; loc: the location
\* found by then ("" for none); landed: whether the navigation moved the
\* session
DetailOutcomes ==
    {Outcome("nav_raise", NoHeading, "", FALSE)}
    \cup {Outcome("parse_raise", h, "", TRUE) : h \in DetailHeadings}
    \cup {Outcome("back_raise", NoHeading, "", l) : l \in BOOLEAN}
    \cup {Outcome("ok", h, l, TRUE) : h \in DetailHeadings, l \in DetailLocations}

\* whether the field lookups after the detail step (lines 213-235) raise
Faults == {"none", "fields"}

(***************************************************************************)
(* State of one run.                                                       *)
(***************************************************************************)
VARIABLES
    pc,       \* where main() is
    page,     \* what the site renders: the elements of the listing page
    driver,   \* the rendering session: state, current page, quit() calls,
              \* and commands issued to it while it was not live
    tried,    \* the discovery strategies that were run
    cands,    \* job_elements after filtering
    idx,      \* position of the per-candidate loop in cands
    jobs,     \* the records accepted so far
    origin,   \* for each record of jobs, the href its link was made from
    last,     \* what happened to the candidate processed last
    file      \* the output path: writes made by this run, and its content

vars == <<pc, page, driver, tried, cands, idx, jobs, origin, last, file>>

NoCandidate ==
    [idx |-> 0, linked |-> FALSE, link |-> "", title0 |-> "",
     attempted |-> FALSE, outcome |-> NoDetail, title |-> "", accepted |-> FALSE,
     fault |-> "none"]

Init ==
    /\ pc = "start"
    /\ page \in Pages
    /\ driver = [state |-> "none", url |-> "blank", quits |-> 0, late |-> 0]
    /\ tried = {}
    /\ cands = <<>>
    /\ idx = 1
    /\ jobs = <<>>
    /\ origin = <<>>
    /\ last = NoCandidate
    /\ file = [writes |-> 0, doc |-> StaleFeed]

\* a navigation or DOM command sent to the session
Command(d) == [d EXCEPT !.late = @ + (IF d.state = "live" THEN 0 ELSE 1)]

\* driver.get(target)
Navigate(d, target) == [Command(d) EXCEPT !.url = target]

\* a variant in which the cleanup runs only when the try block completes
AfterOuterErrorNoCleanup == "returned"

\* `except Exception` of the outer try, then `finally` (lines 247-251)
AfterOuterError == "finally"

\* a variant in which an error in one candidate ends the loop
AfterCandidateErrorAbort == "finally"

\* `except Exception: continue` of the per-candidate try (lines 241-243)
AfterCandidateError == "loop"

\* the number of candidates the loop visits: job_elements[:50]
ToProcess(elements) == Min(Len(elements), MaxCandidates)

(***************************************************************************)
(* scrape_gcf_jobs()                                                       *)
(***************************************************************************)
\* setup_driver(), line 39, outside the try block: an error leaves main()
SetupDriver ==
    /\ pc = "start"
    /\ \/ /\ driver' = [driver EXCEPT !.state = "live"]
          /\ pc' = "load"
       \/ /\ pc' = "crashed"
          /\ UNCHANGED driver
    /\ UNCHANGED <<page, tried, cands, idx, jobs, origin, last, file>>

\* driver.get(url), line 44
LoadPage ==
    /\ pc = "load"
    /\ \/ /\ driver' = Navigate(driver, "listing")
          /\ pc' = "tab"
       \/ /\ driver' = Command(driver)
          /\ pc' = AfterOuterError
    /\ UNCHANGED <<page, tried, cands, idx, jobs, origin, last, file>>

\* the 'Staffs' tab, lines 55-63: absent, clicked, or an error that is caught
ClickTab ==
    /\ pc = "tab"
    /\ \E r \in {"absent", "clicked", "raised"} :
          driver' = IF r = "clicked" THEN Command(Command(driver)) ELSE Command(driver)
    /\ pc' = "scroll"
    /\ UNCHANGED <<page, tried, cands, idx, jobs, origin, last, file>>

\* the two execute_script calls, lines 66-69
Scroll ==
    /\ pc = "scroll"
    /\ \/ /\ driver' = Command(Command(driver))
          /\ pc' = "snapshot"
       \/ /\ driver' = Command(driver)
          /\ pc' = AfterOuterError
    /\ UNCHANGED <<page, tried, cands, idx, jobs, origin, last, file>>

\* page_source, discovery and filtering, lines 72-128
Snapshot ==
    /\ pc = "snapshot"
    /\ driver' = Command(driver)
    /\ \/ /\ tried' = Discover(page).tried
          /\ cands' = Filter(Discover(page).found)
          /\ pc' = "loop"
       \/ /\ pc' = AfterOuterError
          /\ UNCHANGED <<tried, cands>>
    /\ UNCHANGED <<page, idx, jobs, origin, last, file>>

\* the detour to the detail page, lines 175-211: the title and location it
\* leaves, where it leaves the session, and whether it raised
Detour(title0, loc0, link, o, d) ==
    LET titleD == IF o.kind \in {"parse_raise", "back_raise", "ok"} /\ o.found
                  THEN o.title ELSE title0
        locD   == IF o.kind \in {"back_raise", "ok"} /\ o.loc # "" THEN o.loc ELSE loc0
        raised == o.kind # "ok"
        \* driver.get(job_data['link'])
        d1     == IF o.kind = "nav_raise" THEN Command(d) ELSE Navigate(d, "detail")
        \* driver.page_source
        d2     == IF o.kind = "nav_raise" THEN d1 ELSE Command(d1)
        \* driver.get(url)
        d3     == IF o.kind = "ok" \/ (o.kind = "back_raise" /\ o.landed)
                  THEN Navigate(d2, "listing")
                  ELSE IF o.kind = "back_raise" THEN Command(d2) ELSE d2
    IN  [title  |-> IF raised /\ titleD = "" THEN FallbackPrefix \o LastSegment(link)
                    ELSE titleD,
         loc    |-> locD,
         driver |-> d3]

\* one iteration of the loop over job_elements[:50], lines 130-243
ProcessCandidate ==
    /\ pc = "loop"
    /\ idx <= ToProcess(cands)
    /\ LET e      == cands[idx]
           src    == LinkSource(e)
           link   == Normalize(src.href)
           title0 == ListingTitle(e)
           needs  == NeedsDetail(title0)
       IN  IF ~src.found
           THEN \* `continue`, line 145
                /\ last' = [NoCandidate EXCEPT !.idx = idx]
                /\ pc' = "loop"
                /\ UNCHANGED <<driver, jobs, origin>>
           ELSE \E o \in (IF needs THEN DetailOutcomes ELSE {NoDetail}), f \in Faults :
                LET det      == IF needs
                                THEN Detour(title0, ListingLocation(e), link, o, driver)
                                ELSE [title |-> title0, loc |-> ListingLocation(e),
                                      driver |-> driver]
                    location == IF det.loc # "" THEN det.loc
                                ELSE IF e.loc # "" THEN e.loc ELSE DefaultLocation
                    record   == [link |-> link, title |-> det.title,
                                 location |-> location, department |-> e.dept,
                                 pubDate |-> e.date,
                                 description |-> Description(det.title, location, e.dept)]
                    accepted == f # "fields" /\ record.title # "" /\ record.link # ""
                IN  /\ driver' = det.driver
                    /\ jobs' = IF accepted THEN Append(jobs, record) ELSE jobs
                    /\ origin' = IF accepted THEN Append(origin, src.href) ELSE origin
                    /\ last' = [idx |-> idx, linked |-> TRUE,
                                link |-> link, title0 |-> title0, attempted |-> needs,
                                outcome |-> o, title |-> det.title,
                                accepted |-> accepted, fault |-> f]
                    /\ pc' = IF f = "none" THEN "loop" ELSE AfterCandidateError
    /\ idx' = idx + 1
    /\ UNCHANGED <<page, tried, cands, file>>

\* the loop is exhausted, line 245
EndLoop ==
    /\ pc = "loop"
    /\ idx > ToProcess(cands)
    /\ pc' = "finally"
    /\ UNCHANGED <<page, driver, tried, cands, idx, jobs, origin, last, file>>

\* `finally: driver.quit()`, then `return jobs` (lines 250-253)
Teardown ==
    /\ pc = "finally"
    /\ driver' = [driver EXCEPT !.state = "quit", !.quits = @ + 1]
    /\ pc' \in {"returned", "crashed"}
    /\ UNCHANGED <<page, tried, cands, idx, jobs, origin, last, file>>

(***************************************************************************)
(* main(), lines 349-358                                                   *)
(***************************************************************************)
WriteFeed ==
    /\ pc = "returned"
    /\ ShouldGenerate(jobs)
    /\ \/ /\ \E now \in Timestamps :
                file' = [writes |-> file.writes + 1, doc |-> Feed(jobs, now)]
          /\ pc' = "done"
       \/ /\ pc' = "crashed"
          /\ UNCHANGED file
    /\ UNCHANGED <<page, driver, tried, cands, idx, jobs, origin, last>>

NoJobsFound ==
    /\ pc = "returned"
    /\ ~ShouldGenerate(jobs)
    /\ pc' = "done"
    /\ UNCHANGED <<page, driver, tried, cands, idx, jobs, origin, last, file>>

Next ==
    \/ SetupDriver
    \/ LoadPage
    \/ ClickTab
    \/ Scroll
    \/ Snapshot
    \/ ProcessCandidate
    \/ EndLoop
    \/ Teardown
    \/ WriteFeed
    \/ NoJobsFound

Spec == Init /\ [][Next]_vars

(***************************************************************************)
(* Vocabulary of the properties.                                           *)
(***************************************************************************)
IsPrefix(s, t) == Len(s) <= Len(t) /\ SubSeq(t, 1, Len(s)) = s

\* scrape_gcf_jobs() has returned
Returned == pc \in {"returned", "done"}

\* the snapshot was taken, so discovery and filtering have run
Discovered == tried # {}

\* the children of the channel element of a feed document
ChannelChildren(doc) == doc.children[1].children

IsItem(el) == el.tag = "item"
IsMeta(el) == el.tag # "item"
ItemsOf(doc) == SelectSeq(ChannelChildren(doc), IsItem)

\* the children of an element that carry a given tag
Tagged(el, tag) == {i \in DOMAIN el.children : el.children[i].tag = tag}

\* a URL scheme followed by a colon opens the string
Letters == Range(Lower) \cup Range(Upper)
SchemeChars == Letters \cup {"0", "1", "2", "3", "4", "5", "6", "7", "8", "9", "+", "-", "."}
HasScheme(h) ==
    \E k \in 2..Len(h) :
        /\ SubSeq(h, k, k) = ":"
        /\ SubSeq(h, 1, 1) \in Letters
        /\ \A j \in 1..(k - 1) : SubSeq(h, j, j) \in SchemeChars

\* the detour raised an error
Raised(o) == o.kind \in {"nav_raise", "parse_raise", "back_raise"}

\* the title that calls for a detail-page lookup, in the words of the claim
CallsForLookup(title) == Len(title) < 5 \/ StartsWith(title, "Position")

(***************************************************************************)
(* C1 as stated: every run of main() that ends normally overwrites the     *)
(* output file, and a run with zero records writes a feed with the channel *)
(* metadata and no item.                                                   *)
(***************************************************************************)
C1_EveryRunOverwrites ==
    pc = "done" =>
        /\ file.writes = 1
        /\ Len(ItemsOf(file.doc)) = Len(jobs)

(***************************************************************************)
(* C1 amended: a run of main() that ends normally overwrites the output    *)
(* file exactly when at least one record was scraped, with the channel     *)
(* metadata followed by one item per record; with zero records nothing is  *)
(* written and the file keeps what an earlier run left, although           *)
(* generate_rss_feed([]) itself yields the metadata and no item.           *)
(***************************************************************************)
C1_OverwritesOnlyWithRecords ==
    /\ pc = "done" /\ jobs # <<>> =>
          /\ file.writes = 1
          /\ \E now \in Timestamps :
                SubSeq(ChannelChildren(file.doc), 1, Len(ChannelMeta(now))) = ChannelMeta(now)
          /\ Len(ItemsOf(file.doc)) = Len(jobs)
    /\ pc = "done" /\ jobs = <<>> =>
          /\ file.writes = 0
          /\ file.doc = StaleFeed
    /\ \A now \in Timestamps :
          /\ ItemsOf(Feed(<<>>, now)) = <<>>
          /\ ChannelChildren(Feed(<<>>, now)) = ChannelMeta(now)

\* a run that ended normally with nothing scraped although the page loaded
C1_Witness ==
    pc = "done" /\ jobs = <<>> /\ Discovered /\ driver.quits = 1 /\ file.writes = 0

(***************************************************************************)
(* C2: once the session exists it is quit exactly once before              *)
(* scrape_gcf_jobs() returns, on every exit path, and no command reaches   *)
(* the session after the quit.                                             *)
(***************************************************************************)
C2_TornDownExactlyOnce ==
    /\ driver.quits <= 1
    /\ driver.late = 0
    /\ driver.state = "live" => driver.quits = 0
    /\ Returned => driver.quits = 1 /\ driver.state = "quit"
    /\ pc = "crashed" /\ driver.state # "none" => driver.quits = 1

\* the function returned after the initial page load failed
C2_Witness ==
    pc = "returned" /\ driver.url = "blank" /\ ~Discovered /\ driver.quits = 1

(***************************************************************************)
(* C3: every iteration of the per-candidate loop, an erroring one          *)
(* included, goes on to the next candidate and leaves the records accepted *)
(* before it in place; the loop visits every candidate within the cap, and *)
(* the function returns the records accumulated.                           *)
(***************************************************************************)
C3_ErrorSkipsOneCandidate ==
    /\ [][pc = "loop" /\ idx <= ToProcess(cands) =>
            /\ pc' = "loop"
            /\ idx' = idx + 1
            /\ cands' = cands
            /\ IsPrefix(jobs, jobs')
            /\ Len(jobs') <= Len(jobs) + 1]_vars
    /\ [][(pc = "loop" /\ pc' # "loop") => (idx = ToProcess(cands) + 1 /\ jobs' = jobs)]_vars
    /\ [][(pc \in {"finally", "returned"}) => (jobs' = jobs)]_vars

\* an error in a candidate, with records accepted before it and candidates
\* still to come
C3_Witness ==
    /\ pc = "loop"
    /\ last.fault = "fields"
    /\ jobs # <<>>
    /\ idx <= ToProcess(cands)

(***************************************************************************)
(* C4 as stated: a linked candidate whose listing title is empty, shorter  *)
(* than 5 characters or starts with "Position" gets a detail-page lookup,  *)
(* and whenever the lookup fails (the navigation raises, or the detail     *)
(* page yields no title) its final title is "Position " followed by the    *)
(* trailing path segment of its link.                                      *)
(***************************************************************************)
C4_FallbackWheneverLookupFails ==
    last.linked /\ CallsForLookup(last.title0) =>
        /\ last.attempted
        /\ (last.outcome.kind = "nav_raise" \/ last.outcome.title = "") =>
              last.title = "Position " \o LastSegment(last.link)

(***************************************************************************)
(* C4 amended: such a candidate gets a detail-page lookup.  The title      *)
(* known when the lookup ends is the text of the detail page's heading if  *)
(* one was found, else the listing title.  When the lookup raises an error *)
(* and the known title is empty, the final title is "Position " followed   *)
(* by the trailing path segment of the link; in every other case the final *)
(* title is the known title (a short or "Position..." title stays as it    *)
(* is), and a record whose final title is empty is not emitted.            *)
(***************************************************************************)
C4_FallbackOnlyWhenRaisedAndEmpty ==
    last.linked /\ CallsForLookup(last.title0) =>
        LET o     == last.outcome
            known == IF o.found THEN o.title ELSE last.title0
        IN  /\ last.attempted
            /\ o.kind # "none"
            /\ last.title = IF Raised(o) /\ known = ""
                            THEN "Position " \o LastSegment(last.link)
                            ELSE known
            /\ last.title = "" => ~last.accepted

\* the navigation to the detail page of an untitled link raised, and the
\* record was accepted under the synthesised title
C4_Witness ==
    /\ last.attempted
    /\ last.outcome.kind = "nav_raise"
    /\ last.title0 = ""
    /\ last.title = "Position 3"
    /\ last.accepted
    /\ jobs[Len(jobs)].title = "Position 3"

(***************************************************************************)
(* C5 as stated: link normalisation returns the href unchanged when it has *)
(* a URL scheme, whatever the scheme, and the site origin followed by the  *)
(* href when it has none, an href that merely begins with the letters      *)
(* "http" included; the result is always an absolute URL.                  *)
(***************************************************************************)
C5_SchemeDecidesNormalisation ==
    \A i \in DOMAIN jobs :
        /\ jobs[i].link = IF HasScheme(origin[i]) THEN origin[i]
                          ELSE "https://jobs.greenclimate.fund" \o origin[i]
        /\ HasScheme(jobs[i].link)

(***************************************************************************)
(* C6: discovery runs strategy (b) only if (a) found nothing and (c) only  *)
(* if (a) and (b) found nothing, stopping at the first that finds          *)
(* anything; on a page with N >= 1 job links, none matching a navigation   *)
(* keyword, exactly min(N, 50) candidates are processed, in document       *)
(* order, and (b) and (c) are never run.                                   *)
(***************************************************************************)
C6_NoNavigationKeyword(e) ==
    /\ ~AnyKeyword(ToLower(e.text), skip_keywords)
    /\ ~AnyKeyword(ToLower(e.href), skip_keywords)

\* the state in which the loop starts and the state in which it has ended
C6_LoopStarts == pc = "loop" /\ idx = 1
C6_LoopEnded == pc = "finally" /\ Discovered

C6_StrategiesInPriorityOrder ==
    LET links == StrategyA(page)
        N     == Len(links)
    IN  /\ Discovered => "a" \in tried /\ last.idx = idx - 1 /\ idx - 1 <= 50
        /\ C6_LoopStarts \/ C6_LoopEnded =>
              /\ "b" \in tried <=> N = 0
              /\ "c" \in tried <=> (N = 0 /\ StrategyB(page) = <<>>)
              /\ (N >= 1 /\ \A i \in 1..N : C6_NoNavigationKeyword(links[i])) =>
                    /\ tried = {"a"}
                    /\ cands = links
                    /\ C6_LoopEnded => idx - 1 = Min(N, 50)

\* the loop ended on a page with more job links than the cap
C6_Witness ==
    /\ C6_LoopEnded
    /\ idx - 1 = 50
    /\ tried = {"a"}
    /\ Len(StrategyA(page)) > 50

(***************************************************************************)
(* C7: the feed holds, after the channel metadata, one item per record in  *)
(* input order; each item's guid is flagged isPermaLink="true" and repeats *)
(* the item's link; an item has a pubDate exactly when the record's        *)
(* pubDate is non-empty, and then it is the record's pubDate verbatim.     *)
(***************************************************************************)
C7_OneItemPerRecord ==
    file.writes > 0 =>
        LET ch    == ChannelChildren(file.doc)
            nmeta == Len(ch) - Len(jobs)
        IN  /\ nmeta >= 0
            /\ \A i \in 1..nmeta : IsMeta(ch[i])
            /\ \A i \in DOMAIN jobs :
                  LET item == ch[nmeta + i]
                  IN  /\ IsItem(item)
                      /\ \E t \in Tagged(item, "title") : item.children[t].text = jobs[i].title
                      /\ \E l \in Tagged(item, "link") : item.children[l].text = jobs[i].link
                      /\ Cardinality(Tagged(item, "guid")) = 1
                      /\ \A g \in Tagged(item, "guid") :
                            /\ item.children[g].text = jobs[i].link
                            /\ item.children[g].attrs = << <<"isPermaLink", "true">> >>
                      /\ Tagged(item, "pubDate") # {} <=> jobs[i].pubDate # ""
                      /\ \A d \in Tagged(item, "pubDate") :
                            item.children[d].text = jobs[i].pubDate

\* a feed written from a dated and an undated record
C7_Witness ==
    /\ file.writes = 1
    /\ \E i, j \in DOMAIN jobs : jobs[i].pubDate # "" /\ jobs[j].pubDate = ""

(***************************************************************************)
(* C8 as stated: filtering drops every candidate whose visible text or     *)
(* whose link target contains one of the six keywords, for containers as   *)
(* for hyperlinks, so that no record has a link containing one of them.    *)
(***************************************************************************)
C8_LinkTarget(e) ==
    IF e.name = "a" THEN e.href ELSE IF e.inner # <<>> THEN e.inner[1].href ELSE ""

C8_SixKeywordsOnTextAndLink ==
    /\ \A i \in DOMAIN cands :
          /\ ~AnyKeyword(ToLower(cands[i].text), skip_keywords)
          /\ ~AnyKeyword(ToLower(C8_LinkTarget(cands[i])), skip_keywords)
    /\ \A i \in DOMAIN jobs : ~AnyKeyword(ToLower(jobs[i].link), skip_keywords)

(***************************************************************************)
(* C8 amended: filtering drops every candidate whose visible text contains *)
(* one of the six keywords, and every hyperlink candidate whose href       *)
(* contains sitemap, sign-in or profile (the link of a container is not    *)
(* tested, nor a link against account, help or about); every other         *)
(* candidate is kept, in its original order, so no record made from a      *)
(* hyperlink has a link containing sitemap, sign-in or profile.            *)
(***************************************************************************)
C8_TextHit(e) ==
    \E k \in {"sitemap", "account", "sign-in", "profile", "help", "about"} :
        Contains(ToLower(e.text), k)

C8_HrefHit(e) ==
    /\ e.name = "a"
    /\ \E k \in {"sitemap", "sign-in", "profile"} : Contains(ToLower(e.href), k)

C8_Survives(e) == ~C8_TextHit(e) /\ ~C8_HrefHit(e)

\* the state that follows the filtering step
C8_Filtered == pc = "loop" /\ idx = 1

C8_TextKeywordsAndThreeLinkKeywords ==
    /\ C8_Filtered => cands = SelectSeq(Discover(page).found, C8_Survives)
    /\ (last.accepted /\ cands[last.idx].name = "a") =>
          \A k \in {"sitemap", "sign-in", "profile"} : ~Contains(ToLower(last.link), k)

\* a link to /job/profile was dropped and a link to /job/help was kept and
\* made into a record
C8_Witness ==
    /\ pc = "returned"
    /\ Len(cands) = 1
    /\ Len(jobs) = 1
    /\ Contains(cands[1].href, "help")
    /\ Contains(jobs[1].link, "help")
    /\ Len(Discover(page).found) = 2

(***************************************************************************)
(* C9 as stated: the session is never on a detail page when the next       *)
(* candidate starts (or the loop ends): every detour to a detail page is   *)
(* followed by a navigation back to the listing, whatever its outcome.     *)
(***************************************************************************)
C9_BackOnListingBeforeNextCandidate ==
    pc = "loop" => driver.url = "listing"

(***************************************************************************)
(* C10 as stated: a record's description is its title, then "Location: X"  *)
(* unless the location is the default substituted for an unknown location, *)
(* then "Department: Y" unless the department is empty, joined by " | ".   *)
(***************************************************************************)
C10_LocationOmittedWhenDefaulted ==
    \A i \in DOMAIN jobs :
        LET j == jobs[i]
        IN  j.description =
                j.title
                \o (IF j.location # "Green Climate Fund"
                    THEN " | Location: " \o j.location ELSE "")
                \o (IF j.department # "" THEN " | Department: " \o j.department ELSE "")

====
